---- MODULE Spec2Model ----
(***************************************************************************)
(* A state-machine model of circles.py: a script that synthesises a ring    *)
(* dataset (CircleData), splits it 80/20 (random_split), trains a small     *)
(* classifier one epoch at a time (train_loop), captures the class         *)
(* probability field over a fixed mesh at designated epochs and finally     *)
(* draws one panel per captured field (plot_ax, add_scatter).               *)
(*                                                                         *)
(* Numeric abstraction.  Tensors of reals are replaced by small integers:   *)
(*   - a sample's angle is a number of quarter turns, so that cos and sin   *)
(*     are in {-1, 0, 1} and coordinates stay integers;                     *)
(*   - the noise torch.randn(n) * std is a draw from NoiseVals times std;   *)
(*   - the model's parameters and their .grad are residues modulo ParamMod, *)
(*     and the autodiff gradient of a batch's loss is a fixed deterministic *)
(*     function LossGrad of the parameters and of the batch's samples;      *)
(*   - lengths that appear doubled (ax2) are twice the source's value, so   *)
(*     that the factor 1.5 stays an integer.                                *)
(* Sequences are 1-based: dataset index k of the model is index k-1 of the  *)
(* source.  Class labels keep the source's 0-based values.                  *)
(***************************************************************************)
EXTENDS Integers, Sequences, FiniteSets, TLC

VARIABLES
    pc,               \* position of the script
    radii,            \* line 109: the list of ring radii
    n_dpt,            \* the sample count handed to CircleData
    std,              \* the noise scale handed to CircleData
    dataset,          \* line 111: the CircleData object
    train_dataset,    \* line 112: indices of the training Subset
    test_dataset,     \* line 112: indices of the test Subset
    epochs_to_plot,   \* line 136
    model,            \* lines 118-123: [params, grad] (grad is the parameters' .grad)
    tl,               \* the frame of the running train_loop call
    t,                \* line 137: the epoch loop's counter
    mesh,             \* line 133
    epoch_mesh_preds, \* lines 135, 140
    panels,           \* what the plot loop (147-148) has drawn, in order
    captured_at,      \* history: completed train_loop calls at each capture
    epochs_done,      \* history: number of train_loop calls that have returned
    model_q,          \* train_loop twin run with verbose=False: its model
    tl_q              \* train_loop twin run with verbose=False: its frame

vars == <<pc, radii, n_dpt, std, dataset, train_dataset, test_dataset,
          epochs_to_plot, model, tl, t, mesh, epoch_mesh_preds, panels,
          captured_at, epochs_done, model_q, tl_q>>

----------------------------------------------------------------------------
(* Bounds *)

\* largest sample count for which CircleData is explored on its own
MaxDpt == 2
\* largest dataset length for which random_split is explored on its own
MaxSplitLen == 5
\* number of batches of the longest dataloader train_loop is explored on alone
MaxBatches == 101
\* residues used for parameters and gradients
ParamMod == 3

\* the draws of torch.randn, before scaling by std
NoiseVals == {-1, 0, 1}
\* the draws of torch.rand, as quarter turns
AngleVals == 0 .. 3

----------------------------------------------------------------------------
(* Generic helpers *)

Range(s) == {s[k] : k \in DOMAIN s}

\* the indices of a collection of n items, in order
Ident(n) == [k \in 1 .. n |-> k]

Abs(a) == IF a < 0 THEN -a ELSE a

Max2(a, b) == IF a >= b THEN a ELSE b

\* Python's max over a non-empty collection
MaxOf(S) == CHOOSE m \in S : \A x \in S : x <= m

\* Python's min over a non-empty collection
MinOf(S) == CHOOSE m \in S : \A x \in S : m <= x

RECURSIVE SumSeq(_)
SumSeq(s) == IF s = <<>> THEN 0 ELSE s[1] + SumSeq(Tail(s))

\* s[lo..hi] of the model, the slice s[lo-1:hi] of the source
Slice(s, lo, hi) == [k \in 1 .. (IF hi >= lo THEN hi - lo + 1 ELSE 0) |-> s[lo + k - 1]]

\* all orderings of the elements of the sequence s (torch.randperm, shuffle=True)
Perms(s) ==
    LET n == Len(s)
        P == {p \in [1 .. n -> 1 .. n] : \A a, b \in 1 .. n : a # b => p[a] # p[b]}
    IN  {[k \in 1 .. n |-> s[p[k]]] : p \in P}

\* the elements of the set of integers S in increasing order
RECURSIVE Sorted(_)
Sorted(S) == IF S = {} THEN <<>> ELSE <<MinOf(S)>> \o Sorted(S \ {MinOf(S)})

\* number of k in DOMAIN s with s[k] = x
Count(s, x) == Cardinality({k \in DOMAIN s : s[k] = x})

----------------------------------------------------------------------------
(* CircleData, lines 23-41 *)

\* (r cos(2 pi a), r sin(2 pi a)) for an angle of q quarter turns
Cartesian(r, q) ==
    CASE q = 0 -> <<r, 0>>
      [] q = 1 -> <<0, r>>
      [] q = 2 -> <<-r, 0>>
      [] OTHER -> <<0, -r>>

\* torch.tensor(radii)[self.cats] reading the neighbouring radius instead
RadiusOfShifted(rs, cat) == rs[((cat + 1) % Len(rs)) + 1]

\* torch.tensor(radii)[self.cats]
RadiusOf(rs, cat) == rs[cat + 1]

\* __init__: cats, eps and angles are the draws of randint, randn and rand
CircleData(rs, n, sd, cats, eps, angles) ==
    [ cats   |-> cats,
      inputs |-> [k \in 1 .. n |->
                    Cartesian(RadiusOf(rs, cats[k]) + eps[k] * sd, angles[k])],
      eps    |-> [k \in 1 .. n |-> eps[k] * sd],
      n_dpt  |-> n ]

\* __len__
DataLen(d) == d.n_dpt

\* __getitem__ for the model's index k
GetItem(d, k) == <<d.inputs[k], d.cats[k]>>

\* the object before line 111 has run
NoData == [cats |-> <<>>, inputs |-> <<>>, eps |-> <<>>, n_dpt |-> 0]

----------------------------------------------------------------------------
(* random_split(dataset, [0.8, 0.2]), line 112 *)

\* the fractions 0.8 and 0.2, in tenths
SplitTenths == <<8, 2>>

\* floor(n * frac) per fraction, the remainder forgotten
SplitLengthsNoRemainder(n) ==
    [j \in 1 .. 2 |-> (n * SplitTenths[j]) \div 10]

\* floor(n * frac) per fraction, the remainder handed out round-robin from the first
SplitLengths(n) ==
    LET base == [j \in 1 .. 2 |-> (n * SplitTenths[j]) \div 10]
        rem  == n - (base[1] + base[2])
    IN  [j \in 1 .. 2 |->
            base[j] + Cardinality({r \in 0 .. rem - 1 : (r % 2) + 1 = j})]

\* the two Subsets: consecutive slices of the permutation perm of the indices
RandomSplit(n, perm) ==
    LET ln == SplitLengths(n)
    IN  [ train |-> Slice(perm, 1, ln[1]),
          test  |-> Slice(perm, ln[1] + 1, ln[1] + ln[2]) ]

----------------------------------------------------------------------------
(* The model and its optimizer, lines 118-127 *)

\* nn.Sequential(...) after construction: some initial parameters p0, .grad
\* unset, n_out scores per input (the width of the last Linear)
NewModel(p0, n_out) == [params |-> p0, grad |-> 0, n_out |-> n_out]

\* what a batch contributes to the loss and to its gradient
BatchWeight(batch) ==
    SumSeq([k \in DOMAIN batch.labels |->
              batch.labels[k] + 1 + Abs(batch.inputs[k][1]) + Abs(batch.inputs[k][2])])

\* loss_fn(model(inputs), labels): the value of the loss at parameters p
LossVal(p, batch) == (2 * p + BatchWeight(batch)) % ParamMod

\* d loss / d parameters at parameters p
LossGrad(p, batch) == (p + BatchWeight(batch)) % ParamMod

\* lines 48-49: the loss tensor remembers the parameters and the batch it was
\* computed from; backward() differentiates that graph
ForwardLoss(m, batch) ==
    [value |-> LossVal(m.params, batch), at |-> m.params, batch |-> batch]

\* optimizer.zero_grad() left out
ZeroGradSkipped(m) == m

\* line 52: optimizer.zero_grad()
ZeroGrad(m) == [m EXCEPT !.grad = 0]

\* line 54: loss.backward() accumulates into .grad
Backward(m, loss) ==
    [m EXCEPT !.grad = (m.grad + LossGrad(loss.at, loss.batch)) % ParamMod]

\* line 57: optimizer.step(), plain SGD; the learning rate is the unit of grad
OptimizerStep(m) ==
    [m EXCEPT !.params = (m.params + ParamMod - m.grad) % ParamMod]

----------------------------------------------------------------------------
(* train_loop, lines 44-61, as steps on a frame f and the model m *)

\* line 59: the batches whose loss is logged
LogEvery == 100

NoBatch == [inputs |-> <<>>, labels |-> <<>>]

NoLoss == [value |-> 0, at |-> 0, batch |-> NoBatch]

\* line 45 and the call itself; source holds the indices the dataloader's
\* sampler shuffles (those of the Subset it was built on)
NewFrame(verbose, size, source) ==
    [ pc      |-> "fetch",
      verbose |-> verbose,
      size    |-> size,
      source  |-> source,
      served  |-> <<>>,    \* the indices the sampler has yielded so far, in order
      i       |-> -1,      \* enumerate's counter, -1 before the first batch
      batch   |-> NoBatch,
      loss    |-> NoLoss,
      out     |-> <<>>,    \* the lines written by print
      steps   |-> 0 ]      \* history: optimizer steps taken in this call

\* a frame outside any call
IdleFrame == [NewFrame(FALSE, 0, <<>>) EXCEPT !.pc = "idle"]

\* line 46: the iterator yields batch, the samples at the indices idx
TLFetch(f, batch, idx) ==
    [f EXCEPT !.pc = "forward", !.i = f.i + 1, !.batch = batch,
              !.served = f.served \o idx]

\* line 46: the iterator is exhausted and train_loop returns
TLReturn(f) == [f EXCEPT !.pc = "done"]

\* lines 47-49
TLForward(f, m) == [f EXCEPT !.pc = "zero_grad", !.loss = ForwardLoss(m, f.batch)]

\* lines 59-61
TLLog(f) ==
    [f EXCEPT !.pc = "fetch",
              !.out = IF f.i % LogEvery = 0 /\ f.verbose
                      THEN Append(f.out, [i |-> f.i, loss |-> f.loss.value,
                                          current |-> (f.i + 1) * Len(f.batch.inputs),
                                          size |-> f.size])
                      ELSE f.out]

\* the model after the step of train_loop that frame f is about to take,
\* with a second optimizer step slipped into the logging branch
TLModelLogSteps(f, m) ==
    CASE f.pc = "zero_grad" -> ZeroGrad(m)
      [] f.pc = "backward"  -> Backward(m, f.loss)
      [] f.pc = "step"      -> OptimizerStep(m)
      [] f.pc = "log"       -> IF f.i % LogEvery = 0 /\ f.verbose
                               THEN OptimizerStep(m) ELSE m
      [] OTHER              -> m

\* the model after the step of train_loop that frame f is about to take
TLModel(f, m) ==
    CASE f.pc = "zero_grad" -> ZeroGrad(m)
      [] f.pc = "backward"  -> Backward(m, f.loss)
      [] f.pc = "step"      -> OptimizerStep(m)
      [] OTHER              -> m

\* the frame after the step (other than a fetch) that frame f is about to take
TLFrame(f, m) ==
    CASE f.pc = "forward"   -> TLForward(f, m)
      [] f.pc = "zero_grad" -> [f EXCEPT !.pc = "backward"]
      [] f.pc = "backward"  -> [f EXCEPT !.pc = "step"]
      [] f.pc = "step"      -> [f EXCEPT !.pc = "log", !.steps = f.steps + 1]
      [] f.pc = "log"       -> TLLog(f)
      [] OTHER              -> f

----------------------------------------------------------------------------
(* DataLoader(train_dataset, batch_size, shuffle=True), lines 114-115 *)

\* line 114 (64 in the source; scaled to the model's dataset sizes)
batch_size == 2

\* collate: the samples at the given dataset indices, as one batch
Collate(d, idx) ==
    [ inputs |-> [k \in DOMAIN idx |-> GetItem(d, idx[k])[1]],
      labels |-> [k \in DOMAIN idx |-> GetItem(d, idx[k])[2]] ]

\* line 115 built on the whole dataset instead of on the training Subset
TrainLoaderSourceAll(d, trn, tst) == Ident(DataLen(d))

\* line 115: train_dataloader = DataLoader(train_dataset, ...): the indices
\* its sampler shuffles
TrainLoaderSource(d, trn, tst) == trn

\* the indices the sampler has not yielded yet
Unserved(f) == Range(f.source) \ Range(f.served)

\* the index sets the next batch of frame f can be made of: batch_size of the
\* unserved indices, or all of them when fewer are left (drop_last=False).
\* The sampler's permutation is drawn a batch at a time, and a batch is kept
\* in increasing index order: the loss is a mean over the batch's rows.
NextBatches(f) ==
    LET left == Unserved(f)
        k    == IF Cardinality(left) < batch_size THEN Cardinality(left) ELSE batch_size
    IN  {B \in SUBSET left : Cardinality(B) = k}

----------------------------------------------------------------------------
(* The evaluation mesh, lines 129-133, and a checkpoint evaluation, 135/140 *)

\* line 129
npoints == 101

\* largest |coordinate| over the samples of d (line 130's inner max)
MaxAbsCoord(d) ==
    MaxOf({Abs(d.inputs[k][c]) : k \in DOMAIN d.inputs, c \in 1 .. 2})

\* lines 130-133: ax2 is twice ax_length; rows is the number of query points
Mesh(rs, d) ==
    [ ax2     |-> Max2(3 * MaxOf(Range(rs)), 2 * MaxAbsCoord(d)),
      npoints |-> npoints,
      rows    |-> npoints * npoints ]

NoMesh == [ax2 |-> 0, npoints |-> 0, rows |-> 0]

\* nn.Softmax(dim=-1)(model(mesh)) run in training fashion: the call also
\* deposits a gradient in the parameters
EvaluateTouching(m, g) ==
    [ out   |-> [rows |-> g.rows, classes |-> m.n_out,
                 params |-> m.params, ax2 |-> g.ax2],
      model |-> [m EXCEPT !.grad = (m.grad + 1) % ParamMod] ]

\* nn.Softmax(dim=-1)(model(mesh)): out is the probability field, one row of
\* m.n_out class probabilities per query point, determined by the parameters
\* and the mesh; model is the model as the call leaves it
Evaluate(m, g) ==
    [ out   |-> [rows |-> g.rows, classes |-> m.n_out,
                 params |-> m.params, ax2 |-> g.ax2],
      model |-> m ]

\* line 139, testing the counter instead of the number of the finished epoch
IsCheckpointOffByOne(tt, etp) == tt \in Range(etp)

\* line 139: t + 1 in epochs_to_plot
IsCheckpoint(tt, etp) == (tt + 1) \in Range(etp)

\* line 140 storing the field over the latest entry instead of appending it
CaptureOverwrite(preds, field) ==
    IF preds = <<>> THEN <<field>> ELSE [preds EXCEPT ![Len(preds)] = field]

\* lines 135 and 140: epoch_mesh_preds.append(field)
Capture(preds, field) == Append(preds, field)

----------------------------------------------------------------------------
(* Plotting, lines 64-106 and 142-148 *)

\* line 73
Palette == <<"r", "b", "g", "c", "m", "y", "k">>

\* s[:n]
Prefix(s, n) == Slice(s, 1, IF n <= Len(s) THEN n ELSE Len(s))

\* int(n ** 0.5)
ISqrt(n) == MaxOf({r \in 0 .. n : r * r <= n})

\* math.ceil(a / b)
CeilDiv(a, b) == (a + b - 1) \div b

\* matplotlib's colour for the value c of a scatter whose values are cs, under
\* the colormap cmap: c is normalised linearly from [min(cs), max(cs)] to
\* [0, 1] (to 0 when min = max) and then indexes the N colours, 1.0 going to the last
MapColour(c, cs, cmap) ==
    LET vmin == MinOf(Range(cs))
        vmax == MaxOf(Range(cs))
        N    == Len(cmap)
        raw  == IF vmin = vmax THEN 0 ELSE ((c - vmin) * N) \div (vmax - vmin)
    IN  cmap[(IF raw >= N THEN N - 1 ELSE raw) + 1]

\* lines 96-106: one marker per sample of the Subset idx of d
AddScatter(d, idx, marker, cols) ==
    LET scatter_col == [k \in DOMAIN idx |-> GetItem(d, idx[k])[2]]
        cmap == Prefix(cols, MaxOf(Range(scatter_col)) + 1)
    IN  [k \in DOMAIN idx |->
            [ pt     |-> GetItem(d, idx[k])[1],
              label  |-> scatter_col[k],
              marker |-> marker,
              colour |-> MapColour(scatter_col[k], scatter_col, cmap) ]]

\* lines 75-93: blend[k+1] is the colour that weighs class k's probability
PlotAx(mesh_pred, title, d, trn, tst) ==
    LET cols == Prefix(Palette, mesh_pred.classes)
    IN  [ title     |-> title,
          mesh_pred |-> mesh_pred,
          shape     |-> <<npoints, npoints, (3 * mesh_pred.rows) \div (npoints * npoints)>>,
          blend     |-> cols,
          scatter   |-> AddScatter(d, trn, "o", cols) \o AddScatter(d, tst, "x", cols) ]

\* lines 142-145 with a square grid of n_row rows and n_row columns
NumAxesSquare(etp) == ISqrt(Len(etp)) * ISqrt(Len(etp))

\* lines 142-145: the number of axes of the subplot grid
NumAxes(etp) ==
    LET n_ax  == Len(etp)
        n_row == ISqrt(n_ax)
    IN  n_row * CeilDiv(n_ax, n_row)

\* line 147: how many triples zip yields
NumPanels(preds, etp) ==
    MinOf({Len(preds), Len(etp), NumAxes(etp)})

----------------------------------------------------------------------------
(* The script, lines 109-150 *)

\* line 124 (500 in the source; scaled)
n_epochs == 3

\* line 111's sample count 50 * n_cats, scaled
RunDpt == 5

\* line 109's radii, scaled to two rings
RunRadii == <<1, 2>>

\* line 136: the lists shaped like the source's [0, 10, 20, 50, 100, 500]:
\* epoch 0 first, then at least one later epoch up to n_epochs, increasing
PlotLists == {Sorted({0} \cup S) : S \in (SUBSET (1 .. n_epochs)) \ {{}}}

\* the label vectors and split permutations the run is explored on
RunCats == {c \in [1 .. RunDpt -> 0 .. Len(RunRadii) - 1] : \A k \in 1 .. RunDpt - 1 : c[k] <= c[k + 1]}

RunPerms == {Ident(RunDpt), [k \in 1 .. RunDpt |-> RunDpt + 1 - k]}

\* the state at line 129: dataset, split, model and optimizer are built
Init ==
    /\ pc = "mesh"
    /\ radii = RunRadii
    /\ n_dpt = RunDpt
    /\ std = 0
    /\ \E cats \in RunCats :
          dataset = CircleData(RunRadii, RunDpt, 0, cats,
                               [k \in 1 .. RunDpt |-> 0], [k \in 1 .. RunDpt |-> 0])
    /\ \E perm \in RunPerms :
          /\ train_dataset = RandomSplit(RunDpt, perm).train
          /\ test_dataset = RandomSplit(RunDpt, perm).test
    /\ epochs_to_plot \in PlotLists
    /\ \E p0 \in 0 .. ParamMod - 1 : model = NewModel(p0, Len(RunRadii))
    /\ tl = IdleFrame
    /\ t = 0
    /\ mesh = NoMesh
    /\ epoch_mesh_preds = <<>>
    /\ panels = <<>>
    /\ captured_at = <<>>
    /\ epochs_done = 0
    /\ model_q = NewModel(0, 0)
    /\ tl_q = IdleFrame

\* lines 129-133
BuildMesh ==
    /\ pc = "mesh"
    /\ mesh' = Mesh(radii, dataset)
    /\ pc' = "capture0"
    /\ UNCHANGED <<radii, n_dpt, std, dataset, train_dataset, test_dataset,
                   epochs_to_plot, model, tl, t, epoch_mesh_preds, panels,
                   captured_at, epochs_done, model_q, tl_q>>

\* line 135
CaptureInitial ==
    /\ pc = "capture0"
    /\ epoch_mesh_preds' = Capture(epoch_mesh_preds, Evaluate(model, mesh).out)
    /\ model' = Evaluate(model, mesh).model
    /\ captured_at' = Append(captured_at, epochs_done)
    /\ t' = 0
    /\ pc' = IF 0 < n_epochs THEN "call" ELSE "plot"
    /\ UNCHANGED <<radii, n_dpt, std, dataset, train_dataset, test_dataset,
                   epochs_to_plot, tl, mesh, panels, epochs_done, model_q, tl_q>>

\* line 138: the call; train_dataloader was built on train_dataset (115)
CallTrainLoop ==
    /\ pc = "call"
    /\ tl' = NewFrame(FALSE, Len(TrainLoaderSource(dataset, train_dataset, test_dataset)),
                      TrainLoaderSource(dataset, train_dataset, test_dataset))
    /\ pc' = "train"
    /\ UNCHANGED <<radii, n_dpt, std, dataset, train_dataset, test_dataset,
                   epochs_to_plot, model, t, mesh, epoch_mesh_preds, panels,
                   captured_at, epochs_done, model_q, tl_q>>

\* line 46: the dataloader yields the next batch
Fetch ==
    /\ pc = "train" /\ tl.pc = "fetch"
    /\ \E B \in NextBatches(tl) :
          /\ B # {}
          /\ tl' = TLFetch(tl, Collate(dataset, Sorted(B)), Sorted(B))
    /\ UNCHANGED <<pc, radii, n_dpt, std, dataset, train_dataset, test_dataset,
                   epochs_to_plot, model, t, mesh, epoch_mesh_preds, panels,
                   captured_at, epochs_done, model_q, tl_q>>

\* the frame and the model move by the step the frame is at
TrainStep(at) ==
    /\ pc = "train" /\ tl.pc = at
    /\ tl' = TLFrame(tl, model)
    /\ model' = TLModel(tl, model)
    /\ UNCHANGED <<pc, radii, n_dpt, std, dataset, train_dataset, test_dataset,
                   epochs_to_plot, t, mesh, epoch_mesh_preds, panels,
                   captured_at, epochs_done, model_q, tl_q>>

\* lines 47-49
Forward == TrainStep("forward")

\* line 52
ZeroGradStep == TrainStep("zero_grad")

\* line 54
BackwardStep == TrainStep("backward")

\* line 57
StepStep == TrainStep("step")

\* lines 59-61
LogStep == TrainStep("log")

\* line 46: the dataloader is exhausted, train_loop returns to line 139
Return ==
    /\ pc = "train" /\ tl.pc = "fetch"
    /\ Unserved(tl) = {}
    /\ tl' = TLReturn(tl)
    /\ epochs_done' = epochs_done + 1
    /\ pc' = "check"
    /\ UNCHANGED <<radii, n_dpt, std, dataset, train_dataset, test_dataset,
                   epochs_to_plot, model, t, mesh, epoch_mesh_preds, panels,
                   captured_at, model_q, tl_q>>

\* lines 139-140, and the loop's next iteration (137)
Checkpoint ==
    /\ pc = "check"
    /\ IF IsCheckpoint(t, epochs_to_plot)
       THEN /\ epoch_mesh_preds' = Capture(epoch_mesh_preds, Evaluate(model, mesh).out)
            /\ model' = Evaluate(model, mesh).model
            /\ captured_at' = Append(captured_at, epochs_done)
       ELSE UNCHANGED <<epoch_mesh_preds, model, captured_at>>
    /\ t' = t + 1
    /\ pc' = IF t + 1 < n_epochs THEN "call" ELSE "plot"
    /\ UNCHANGED <<radii, n_dpt, std, dataset, train_dataset, test_dataset,
                   epochs_to_plot, tl, mesh, panels, epochs_done, model_q, tl_q>>

\* lines 147-148: one iteration of the plot loop
PlotPanel ==
    /\ pc = "plot"
    /\ Len(panels) < NumPanels(epoch_mesh_preds, epochs_to_plot)
    /\ LET j == Len(panels) + 1
       IN  panels' = Append(panels,
                            PlotAx(epoch_mesh_preds[j], <<"Epoch", epochs_to_plot[j]>>,
                                   dataset, train_dataset, test_dataset))
    /\ UNCHANGED <<pc, radii, n_dpt, std, dataset, train_dataset, test_dataset,
                   epochs_to_plot, model, tl, t, mesh, epoch_mesh_preds,
                   captured_at, epochs_done, model_q, tl_q>>

\* line 150
Show ==
    /\ pc = "plot"
    /\ Len(panels) >= NumPanels(epoch_mesh_preds, epochs_to_plot)
    /\ pc' = "shown"
    /\ UNCHANGED <<radii, n_dpt, std, dataset, train_dataset, test_dataset,
                   epochs_to_plot, model, tl, t, mesh, epoch_mesh_preds, panels,
                   captured_at, epochs_done, model_q, tl_q>>

Next ==
    \/ BuildMesh
    \/ CaptureInitial
    \/ CallTrainLoop
    \/ Fetch
    \/ Forward
    \/ ZeroGradStep
    \/ BackwardStep
    \/ StepStep
    \/ LogStep
    \/ Return
    \/ Checkpoint
    \/ PlotPanel
    \/ Show

Spec == Init /\ [][Next]_vars

----------------------------------------------------------------------------
(* CircleData on its own: line 111 for a range of arguments *)

\* the radii lists CircleData is explored on
RadiiLists == {<<1>>, <<1, 2>>, <<2, 1, 3>>}

\* an idle value of every variable the construction does not touch
RestIdle ==
    /\ train_dataset = <<>>
    /\ test_dataset = <<>>
    /\ epochs_to_plot = <<0>>
    /\ model = NewModel(0, 0)
    /\ tl = IdleFrame
    /\ t = 0
    /\ mesh = NoMesh
    /\ epoch_mesh_preds = <<>>
    /\ panels = <<>>
    /\ captured_at = <<>>
    /\ epochs_done = 0
    /\ model_q = NewModel(0, 0)
    /\ tl_q = IdleFrame

InitData ==
    /\ pc = "dataset"
    /\ radii \in RadiiLists
    /\ n_dpt \in 0 .. MaxDpt
    /\ std \in {0, 1}
    /\ dataset = NoData
    /\ RestIdle

\* line 111: CircleData(radii, n_dpt, std) with the draws of lines 24-26
MakeDataset ==
    /\ pc = "dataset"
    /\ \E cats \in [1 .. n_dpt -> 0 .. Len(radii) - 1],
          eps \in [1 .. n_dpt -> NoiseVals],
          angles \in [1 .. n_dpt -> AngleVals] :
          dataset' = CircleData(radii, n_dpt, std, cats, eps, angles)
    /\ pc' = "split"
    /\ UNCHANGED <<radii, n_dpt, std, train_dataset, test_dataset,
                   epochs_to_plot, model, tl, t, mesh, epoch_mesh_preds, panels,
                   captured_at, epochs_done, model_q, tl_q>>

NextData == MakeDataset

SpecData == InitData /\ [][NextData]_vars

----------------------------------------------------------------------------
(* random_split on its own: line 112 for a range of dataset lengths *)

InitSplit ==
    /\ pc = "split"
    /\ radii = <<1>>
    /\ n_dpt \in 0 .. MaxSplitLen
    /\ std = 0
    /\ dataset = CircleData(radii, n_dpt, 0, [k \in 1 .. n_dpt |-> 0],
                            [k \in 1 .. n_dpt |-> 0], [k \in 1 .. n_dpt |-> 0])
    /\ RestIdle

\* line 112: random_split draws a permutation of the dataset's indices
Split ==
    /\ pc = "split"
    /\ \E perm \in Perms(Ident(DataLen(dataset))) :
          /\ train_dataset' = RandomSplit(DataLen(dataset), perm).train
          /\ test_dataset' = RandomSplit(DataLen(dataset), perm).test
    /\ pc' = "model"
    /\ UNCHANGED <<radii, n_dpt, std, dataset, epochs_to_plot, model, tl, t,
                   mesh, epoch_mesh_preds, panels, captured_at, epochs_done,
                   model_q, tl_q>>

NextSplit == Split

SpecSplit == InitSplit /\ [][NextSplit]_vars

----------------------------------------------------------------------------
(* train_loop on its own: one call with verbose=True beside one call with   *)
(* verbose=False, from the same model and optimizer state, fed the same     *)
(* batches                                                                  *)

\* the batches an arbitrary dataloader is taken to yield
LoopBatches ==
    { [inputs |-> <<<<1, 0>>>>, labels |-> <<0>>],
      [inputs |-> <<<<0, 2>>, <<-1, 0>>>>, labels |-> <<1, 0>>] }

\* len(dataloader.dataset) of that dataloader
LoopSize == 2 * MaxBatches

InitLoop ==
    /\ pc = "loop"
    /\ radii = <<1, 2>>
    /\ n_dpt = 0
    /\ std = 0
    /\ dataset = NoData
    /\ train_dataset = <<>>
    /\ test_dataset = <<>>
    /\ epochs_to_plot = <<0>>
    /\ \E p0 \in 0 .. ParamMod - 1, g0 \in 0 .. ParamMod - 1 :
          /\ model = [NewModel(p0, 2) EXCEPT !.grad = g0]
          /\ model_q = model
    /\ tl = NewFrame(TRUE, LoopSize, <<>>)
    /\ tl_q = NewFrame(FALSE, LoopSize, <<>>)
    /\ t = 0
    /\ mesh = NoMesh
    /\ epoch_mesh_preds = <<>>
    /\ panels = <<>>
    /\ captured_at = <<>>
    /\ epochs_done = 0

\* line 46 in both calls: the dataloader yields the same batch to each
PairFetch ==
    /\ pc = "loop" /\ tl.pc = "fetch" /\ tl_q.pc = "fetch"
    /\ tl.i + 1 < MaxBatches
    /\ \E batch \in LoopBatches :
          /\ tl' = TLFetch(tl, batch, <<>>)
          /\ tl_q' = TLFetch(tl_q, batch, <<>>)
    /\ UNCHANGED <<pc, radii, n_dpt, std, dataset, train_dataset, test_dataset,
                   epochs_to_plot, model, t, mesh, epoch_mesh_preds, panels,
                   captured_at, epochs_done, model_q>>

\* lines 47-61 in both calls: each takes the step its frame is at
PairStep ==
    /\ pc = "loop"
    /\ tl.pc \in {"forward", "zero_grad", "backward", "step", "log"}
    /\ tl' = TLFrame(tl, model)
    /\ model' = TLModel(tl, model)
    /\ tl_q' = TLFrame(tl_q, model_q)
    /\ model_q' = TLModel(tl_q, model_q)
    /\ UNCHANGED <<pc, radii, n_dpt, std, dataset, train_dataset, test_dataset,
                   epochs_to_plot, t, mesh, epoch_mesh_preds, panels,
                   captured_at, epochs_done>>

\* line 46 in both calls: the dataloader is exhausted
PairReturn ==
    /\ pc = "loop" /\ tl.pc = "fetch" /\ tl_q.pc = "fetch"
    /\ tl' = TLReturn(tl)
    /\ tl_q' = TLReturn(tl_q)
    /\ pc' = "returned"
    /\ UNCHANGED <<radii, n_dpt, std, dataset, train_dataset, test_dataset,
                   epochs_to_plot, model, t, mesh, epoch_mesh_preds, panels,
                   captured_at, epochs_done, model_q>>

NextLoop ==
    \/ PairFetch
    \/ PairStep
    \/ PairReturn

SpecLoop == InitLoop /\ [][NextLoop]_vars

----------------------------------------------------------------------------
(* Properties *)

Last(q) == q[Len(q)]

StrictlyIncreasing(q) == \A a, b \in DOMAIN q : a < b => q[a] < q[b]

\* the boundary after epoch e lies behind the script: the next call of
\* train_loop has begun or is about to, or the epoch loop is over
BoundaryPassed(e) ==
    \/ epochs_done > e
    \/ epochs_done = e /\ pc \in {"call", "train", "plot", "shown"}

C1_State ==
    /\ Len(epoch_mesh_preds) = Len(captured_at)
    /\ StrictlyIncreasing(captured_at)
    /\ Range(captured_at) \subseteq Range(epochs_to_plot)
    /\ \A e \in Range(epochs_to_plot) :
          BoundaryPassed(e) => e \in Range(captured_at)

C1_Step ==
    epoch_mesh_preds' # epoch_mesh_preds =>
        /\ Len(epoch_mesh_preds') = Len(epoch_mesh_preds) + 1
        /\ captured_at' = Append(captured_at, epochs_done)
        /\ epochs_done' = epochs_done
        /\ \/ epochs_done = 0 /\ tl.pc = "idle"
           \/ /\ epochs_done >= 1
              /\ tl.pc = "done"
              /\ Unserved(tl) = {}
              /\ tl.steps = tl.i + 1

\* C1: a field is captured at exactly the epoch boundaries listed in
\* epochs_to_plot and nowhere else: the epoch-0 field before any train_loop
\* call, the field of epoch e >= 1 after the e-th call has processed all its
\* batches and before the next call begins, in strictly increasing epoch order.
C1_CheckpointsAtBoundaries == [](C1_State) /\ [][C1_Step]_vars

C1_Witness ==
    /\ pc = "shown"
    /\ epochs_to_plot = <<0, 1, 3>>
    /\ captured_at = <<0, 1, 3>>

\* number of optimizer steps a frame must have taken: one per batch whose
\* line 57 is behind it
StepsDue(f) == IF f.pc \in {"log", "fetch", "done"} THEN f.i + 1 ELSE f.i

\* C2: for every batch, the gradients are zero when the batch's backward pass
\* starts, the gradient the optimizer step applies is the gradient of the
\* current batch's loss alone, and exactly one optimizer step is taken per batch.
C2_FreshGradientPerStep ==
    pc = "train" =>
        /\ tl.pc = "backward" => model.grad = 0
        /\ tl.pc = "step" =>
              /\ model.grad = LossGrad(model.params, tl.batch)
              /\ tl.loss.at = model.params
              /\ tl.loss.batch = tl.batch
        /\ tl.steps = StepsDue(tl)

C2_Witness ==
    /\ pc = "train"
    /\ tl.pc = "step"
    /\ tl.i >= 1
    /\ epochs_done >= 1
    /\ model.grad # 0

\* C3: after random_split the training and test index sets are disjoint,
\* together they are all the indices of the dataset, no index is repeated,
\* the sizes add up to the dataset's length and each is the floor of its
\* share or one more.
C3_SplitIsPartition ==
    pc = "model" =>
        LET n == DataLen(dataset)
        IN  /\ Range(train_dataset) \cap Range(test_dataset) = {}
            /\ Range(train_dataset) \cup Range(test_dataset) = 1 .. n
            /\ Cardinality(Range(train_dataset)) = Len(train_dataset)
            /\ Cardinality(Range(test_dataset)) = Len(test_dataset)
            /\ Len(train_dataset) + Len(test_dataset) = n
            /\ Len(train_dataset) - (8 * n) \div 10 \in {0, 1}
            /\ Len(test_dataset) - (2 * n) \div 10 \in {0, 1}

C3_Witness ==
    /\ pc = "model"
    /\ DataLen(dataset) = 3
    /\ Len(train_dataset) = 3
    /\ test_dataset = <<>>

\* C4: when the script ends, epoch_mesh_preds holds one field per epoch of
\* epochs_to_plot, one panel per such epoch has been drawn, and the panel
\* titled "Epoch e" shows the field captured after exactly e completed epochs.
C4_OnePanelPerCheckpoint ==
    pc = "shown" =>
        /\ Len(epoch_mesh_preds) = Len(epochs_to_plot)
        /\ captured_at = epochs_to_plot
        /\ Len(panels) = Len(epochs_to_plot)
        /\ \A j \in DOMAIN panels :
              /\ panels[j].title = <<"Epoch", epochs_to_plot[j]>>
              /\ panels[j].mesh_pred = epoch_mesh_preds[j]
              /\ panels[j].title[2] = captured_at[j]

C4_Witness ==
    /\ pc = "shown"
    /\ epochs_to_plot = <<0, 2, 3>>
    /\ Len(panels) = 3
    /\ panels[2].title = <<"Epoch", 2>>

C5_Step ==
    epoch_mesh_preds' # epoch_mesh_preds =>
        /\ model' = model
        /\ Last(epoch_mesh_preds') = Evaluate(model', mesh').out

\* C5: a checkpoint evaluation leaves the parameters and the accumulated
\* gradients as they were, so evaluating again right after it, with no
\* training step in between, gives the field just captured.
C5_EvaluationLeavesModelAlone == [][C5_Step]_vars

C5_Witness ==
    /\ Len(epoch_mesh_preds) >= 2
    /\ pc = "call"
    /\ model.grad # 0
    /\ Last(epoch_mesh_preds).params = model.params

C6_Step ==
    /\ dataset' = dataset
    /\ train_dataset' = train_dataset
    /\ test_dataset' = test_dataset
    /\ radii' = radii
    /\ epochs_to_plot' = epochs_to_plot
    /\ pc # "mesh" => mesh' = mesh
    /\ Len(epoch_mesh_preds') >= Len(epoch_mesh_preds)
    /\ \A j \in DOMAIN epoch_mesh_preds : epoch_mesh_preds'[j] = epoch_mesh_preds[j]

C6_State ==
    \A j \in DOMAIN epoch_mesh_preds :
        /\ epoch_mesh_preds[j].rows = npoints * npoints
        /\ epoch_mesh_preds[j].rows = mesh.rows
        /\ epoch_mesh_preds[j].ax2 = mesh.ax2
        /\ epoch_mesh_preds[j].classes = Len(radii)

\* C6: once built, the dataset, the split, the mesh and every captured field
\* are never modified by a training step, a checkpoint evaluation or a
\* plotting step, and every field is over the same npoints x npoints mesh.
C6_BuiltDataIsFrozen == [](C6_State) /\ [][C6_Step]_vars

C6_Witness ==
    /\ pc = "shown"
    /\ Len(epoch_mesh_preds) >= 3
    /\ epoch_mesh_preds[1] # epoch_mesh_preds[2]
    /\ Len(panels) >= 1

\* the batches of frame f whose lines 59-61 are behind it
BatchesLogged(f) == IF f.pc \in {"fetch", "done"} THEN f.i + 1 ELSE f.i

\* C7: fed the same batches from the same model and optimizer state, a call
\* with verbose=True and a call with verbose=False keep the same parameters
\* and gradients throughout; the only difference is that the verbose call has
\* written one loss line for exactly the batches with i % 100 = 0.
C7_VerboseOnlyObserves ==
    pc \in {"loop", "returned"} =>
        /\ model = model_q
        /\ [tl EXCEPT !.verbose = FALSE, !.out = <<>>] = tl_q
        /\ tl_q.out = <<>>
        /\ [k \in DOMAIN tl.out |-> tl.out[k].i]
              = Sorted({j \in 0 .. BatchesLogged(tl) - 1 : j % 100 = 0})

C7_Witness ==
    /\ pc = "returned"
    /\ tl.i = 100
    /\ Len(tl.out) = 2
    /\ tl.out[2].i = 100
    /\ tl.steps = 101

\* C8: every scatter marker of every panel has the palette colour of its
\* sample's class label, the colour that class has in the mesh blend.
C8_MarkersInClassColour ==
    \A j \in DOMAIN panels :
        \A k \in DOMAIN panels[j].scatter :
            panels[j].scatter[k].colour
                = panels[j].blend[panels[j].scatter[k].label + 1]

\* the distance of a point on an axis from the origin
Norm(pt) == Abs(pt[1]) + Abs(pt[2])

\* C9: the constructed CircleData has length n_dpt, n_dpt inputs and n_dpt
\* labels, and every label is in [0, len(radii)) and is the index of the
\* radius the sample was placed at (up to the sample's noise).
C9_LabelsIndexRadii ==
    pc = "split" =>
        /\ DataLen(dataset) = n_dpt
        /\ Len(dataset.inputs) = n_dpt
        /\ Len(dataset.cats) = n_dpt
        /\ \A k \in 1 .. n_dpt :
              /\ dataset.cats[k] \in 0 .. Len(radii) - 1
              /\ Norm(GetItem(dataset, k)[1])
                    = Abs(radii[GetItem(dataset, k)[2] + 1] + dataset.eps[k])

C9_Witness ==
    /\ pc = "split"
    /\ radii = <<2, 1, 3>>
    /\ n_dpt = 2
    /\ std = 1
    /\ dataset.cats = <<2, 0>>
    /\ dataset.inputs = <<<<0, 4>>, <<-2, 0>>>>

\* C10: each call of train_loop serves every sample of the training split
\* exactly once and never a sample of the test split, every batch is made of
\* the samples just served, and train_loop is called n_epochs times in all.
C10_FullPassOverTrainingSplit ==
    pc \in {"train", "check", "call", "plot", "shown"} =>
        /\ Range(tl.served) \cap Range(test_dataset) = {}
        /\ \A x \in Range(tl.served) : Count(tl.served, x) = 1
        /\ tl.pc = "done" =>
              /\ Range(tl.served) = Range(train_dataset)
              /\ Len(tl.served) = Len(train_dataset)
        /\ tl.pc \in {"forward", "zero_grad", "backward", "step", "log"} =>
              /\ tl.batch.inputs # <<>>
              /\ tl.batch = Collate(dataset,
                                    Slice(tl.served,
                                          Len(tl.served) - Len(tl.batch.inputs) + 1,
                                          Len(tl.served)))
        /\ epochs_done <= n_epochs
        /\ pc \in {"plot", "shown"} => epochs_done = n_epochs /\ t = n_epochs

C10_Witness ==
    /\ pc = "check"
    /\ tl.pc = "done"
    /\ epochs_done = n_epochs
    /\ tl.i >= 1
    /\ test_dataset # <<>>

====
